---- MODULE Spec2Model ----
(***************************************************************************)
(* State-machine model of the BiMPM training driver (src/train.py) and     *)
(* evaluation driver (src/test.py), together with the parameter ownership  *)
(* set up in src/model/layers.py.                                          *)
(*                                                                         *)
(* Model objects live in a heap so that aliasing and copy.deepcopy can be  *)
(* told apart.  Tensor values are abstracted to small naturals: a          *)
(* parameter's value is a version number that an optimizer step may raise. *)
(* Forward passes, losses and predictions come from the tensor library and *)
(* are drawn nondeterministically.                                         *)
(***************************************************************************)
EXTENDS Integers, Sequences, FiniteSets, TLC

(* ------------------------------ bounds -------------------------------- *)
MaxTrainBatches == 2
MaxPrintInterval == 2
MaxExamples == 2
BatchSize == 1

(* ----------------------------- vocabulary ----------------------------- *)
DataTypes == {"SNLI", "Quora", "snli", "quora", "app", "foo"}
ParamNames == {"word_encoder.weight", "char_encoder.weight", "lstm.weight"}
Losses == {0, 1}
TrainLosses == {1}
Deltas == {1}
PretrainedChoices == {1, 2}

Unbound == 0
ModelRef == 1
ObjIds == 1..3
NoGrad == -1
NoObj == [params |-> [n \in ParamNames |-> 0],
          requires_grad |-> [n \in ParamNames |-> FALSE],
          grad |-> [n \in ParamNames |-> NoGrad],
          training |-> FALSE,
          live |-> FALSE]
NoFwd == [caller |-> "none", training |-> FALSE]
NoRet == [kind |-> "none", loss |-> 0, acc |-> <<0, 1>>]
RuntimeErrorMsg == "RuntimeError: Data source other than SNLI or Quora was provided."

VARIABLES driver, data_type, app, numTrain, print_interval, validN, testN,
          pretrained,
          pc, raised, heap, model, best_model, optParams,
          i, kt, train_loss, max_valid_acc, max_test_acc,
          valid_loss, valid_acc, test_loss, test_acc, result,
          t_mode, t_iter, t_acc, t_loss, t_size, t_ret, retval,
          events, lastFwd, accHist, t_log

vars == <<driver, data_type, app, numTrain, print_interval, validN, testN,
          pretrained,
          pc, raised, heap, model, best_model, optParams,
          i, kt, train_loss, max_valid_acc, max_test_acc,
          valid_loss, valid_acc, test_loss, test_acc, result,
          t_mode, t_iter, t_acc, t_loss, t_size, t_ret, retval,
          events, lastFwd, accHist, t_log>>

inputs == <<driver, data_type, app, numTrain, print_interval, validN, testN,
            pretrained>>
trainLocals == <<i, kt, train_loss, max_valid_acc, max_test_acc,
                 valid_loss, valid_acc, test_loss, test_acc, result>>
testFrame == <<t_mode, t_iter, t_acc, t_loss, t_size, t_ret, retval, t_log>>

(* ------------------------------ helpers ------------------------------- *)

\* str.lower() on the dataset names the drivers can be given.
Lower(s) ==
  CASE s = "SNLI" -> "snli"
    [] s = "Quora" -> "quora"
    [] OTHER -> s

\* Attribute lookup obj.name: a dict (what locals() returns) has no data
\* attributes, an Args object exposes its entries as attributes.
HasAttr(kind, name) == kind = "Args"

\* The batches an iterator yields for a split of n examples: full batches
\* of BatchSize and a shorter last one.
Batches(n) ==
  [k \in 1..((n + BatchSize - 1) \div BatchSize) |->
     IF k * BatchSize <= n THEN BatchSize ELSE n - (k - 1) * BatchSize]

\* a > b for accuracies kept as <<correct, size>>.
Greater(a, b) == a[1] * b[2] > b[1] * a[2]
SameAcc(a, b) == a[1] * b[2] = b[1] * a[2]

RECURSIVE SumOf(_, _)
SumOf(s, f) == IF s = <<>> THEN 0 ELSE s[1][f] + SumOf(Tail(s), f)

(* ------------------------- model construction ------------------------- *)

\* WordRepresentationLayer.__init__: the word table is copied from the
\* pretrained vectors and its requires_grad is switched off.
WordEncoderRequiresGrad_Left_On == TRUE
WordEncoderRequiresGrad == FALSE

NewModel(vectors) ==
  [params |-> [n \in ParamNames |->
                 IF n = "word_encoder.weight" THEN vectors ELSE 0],
   requires_grad |-> [n \in ParamNames |->
                 IF n = "word_encoder.weight" THEN WordEncoderRequiresGrad
                 ELSE TRUE],
   grad |-> [n \in ParamNames |-> NoGrad],
   training |-> TRUE,
   live |-> TRUE]

\* parameters = (p for p in model.parameters() if p.requires_grad)
TrainableParams(obj) == {n \in ParamNames : obj.requires_grad[n]}

\* model.train() / model.eval()
SetTrain_Skipped(h, m) == h
SetTrain(h, m) == [h EXCEPT ![m].training = TRUE]
SetEval(h, m) == [h EXCEPT ![m].training = FALSE]

\* optimizer.zero_grad(): existing gradients of the optimizer's parameters
\* are zeroed.
ZeroGradOf(h, m, ps) ==
  [h EXCEPT ![m].grad = [n \in ParamNames |->
      IF n \in ps /\ h[m].grad[n] # NoGrad THEN 0 ELSE h[m].grad[n]]]

\* batch_loss.backward(): every parameter that requires grad receives one.
BackwardOf(h, m) ==
  [h EXCEPT ![m].grad = [n \in ParamNames |->
      IF h[m].requires_grad[n] THEN 1 ELSE h[m].grad[n]]]

\* optimizer.step(): the optimizer's parameters that hold a gradient move.
StepOf(h, m, ps, d) ==
  [h EXCEPT ![m].params = [n \in ParamNames |->
      IF n \in ps /\ h[m].grad[n] # NoGrad THEN h[m].params[n] + d
      ELSE h[m].params[n]]]

\* copy.deepcopy(model): a fresh object holding the same contents.
DeepCopyRef_Alias(h, m, inUse) == m
DeepCopyRef(h, m, inUse) == CHOOSE o \in ObjIds : o \notin inUse

\* Rebinding best_model: the new object is stored, the one best_model
\* referred to before loses its last reference and is collected.
Rebind(h, old, new, m) ==
  [o \in ObjIds |->
     IF o = new THEN h[m]
     ELSE IF o = old /\ old # new /\ old # m THEN NoObj
     ELSE h[o]]

\* What the loop body of test() does to the model object: nothing.
TestBatchHeap_Updates(h, m) ==
  StepOf(BackwardOf(h, m), m, TrainableParams(h[m]), 1)
TestBatchHeap(h, m) == h

\* test.py lines 146-149: the iterator test() walks in a mode.
IteratorOf_AlwaysTest(mode, v, t) == Batches(t)
IteratorOf(mode, v, t) == IF mode = "valid" THEN Batches(v) ELSE Batches(t)

(* --------------------------- control flow ----------------------------- *)

\* The statements of one iteration of the training loop, in program order.
TrainStepOrder_LossFirst ==
  <<"keep_training", "sentence", "forward", "loss", "zero_grad",
    "backward", "step", "interval">>
TrainStepOrder ==
  <<"keep_training", "sentence", "forward", "zero_grad", "loss",
    "backward", "step", "interval">>

IndexOf(loc) == CHOOSE k \in 1..Len(TrainStepOrder) : TrainStepOrder[k] = loc
Succ(loc) == TrainStepOrder[IndexOf(loc) + 1]

\* for i, batch in enumerate(iterator): leave the loop on exhaustion.
PullTarget(exhausted) == IF exhausted THEN "after_loop" ELSE TrainStepOrder[1]

\* if not model_data.keep_training(iterator): break
KeepTrainingTarget_NoBreak(k) == TrainStepOrder[2]
KeepTrainingTarget(k) == IF k THEN Succ("keep_training") ELSE "after_loop"

\* if (i + 1) % args.print_interval == 0:
IsEvalStep(idx, interval) == (idx + 1) % interval = 0

\* if valid_acc > max_valid_acc:
Improves(acc, best) == Greater(acc, best)

(* ------------------------------- Init --------------------------------- *)

InitCommon ==
  /\ pc = "start"
  /\ raised = "none"
  /\ heap = [o \in ObjIds |-> NoObj]
  /\ model = Unbound
  /\ best_model = Unbound
  /\ optParams = {}
  /\ i = -1
  /\ kt = TRUE
  /\ train_loss = 0
  /\ max_valid_acc = <<0, 1>>
  /\ max_test_acc = <<0, 1>>
  /\ valid_loss = 0
  /\ valid_acc = <<0, 1>>
  /\ test_loss = 0
  /\ test_acc = <<0, 1>>
  /\ result = Unbound
  /\ t_mode = "test"
  /\ t_iter = <<>>
  /\ t_acc = 0
  /\ t_loss = 0
  /\ t_size = 0
  /\ t_ret = "none"
  /\ retval = NoRet
  /\ events = <<>>
  /\ lastFwd = NoFwd
  /\ accHist = <<>>
  /\ t_log = <<>>

InitTrainMain ==
  /\ driver = "train.main"
  /\ data_type \in DataTypes
  /\ app = FALSE
  /\ numTrain = 0
  /\ print_interval = 1
  /\ validN = 0
  /\ testN = 0
  /\ pretrained = 1

InitTestMain ==
  /\ driver = "test.main"
  /\ data_type \in DataTypes
  /\ app \in BOOLEAN
  /\ numTrain = 0
  /\ print_interval = 1
  /\ validN = 0
  /\ testN \in 0..MaxExamples
  /\ pretrained = 1

InitTrain ==
  /\ driver = "train.train"
  /\ data_type = "SNLI"
  /\ app = FALSE
  /\ numTrain \in 0..MaxTrainBatches
  /\ print_interval \in 1..MaxPrintInterval
  /\ validN \in 0..MaxExamples
  /\ testN \in 0..MaxExamples
  /\ pretrained \in PretrainedChoices

Init == InitCommon /\ (InitTrainMain \/ InitTestMain \/ InitTrain)

(* ------------------------- training driver: main ----------------------- *)

\* train.py main(), lines 28-38: args = locals() is a dict, and the dataset
\* is selected by reading args.data_type.
TrainMain ==
  /\ driver = "train.main"
  /\ pc = "start"
  /\ IF ~HasAttr("dict", "data_type")
       THEN raised' = "AttributeError" /\ pc' = "error"
       ELSE IF data_type \in {"SNLI", "Quora"}
         THEN raised' = raised /\ pc' = "train_start"
         ELSE raised' = RuntimeErrorMsg /\ pc' = "error"
  /\ UNCHANGED <<inputs, heap, model, best_model, optParams, trainLocals,
                 testFrame, events, lastFwd, accHist>>

(* ------------------------ evaluation driver: main ---------------------- *)

\* test.py main(), lines 71-97: the app flag is tested before the name.
TestMainSelect ==
  /\ driver = "test.main"
  /\ pc = "start"
  /\ IF app
       THEN raised' = raised /\ pc' = "load_model"
       ELSE IF Lower(data_type) = "snli" \/ Lower(data_type) = "quora"
         THEN raised' = raised /\ pc' = "load_model"
         ELSE raised' = RuntimeErrorMsg /\ pc' = "error"
  /\ UNCHANGED <<inputs, heap, model, best_model, optParams, trainLocals,
                 testFrame, events, lastFwd, accHist>>

\* test.py lines 100-106 and load_model(): a new model whose parameters are
\* overwritten by the checkpoint's.
LoadModel ==
  /\ pc = "load_model"
  /\ \E c \in Deltas :
       heap' = [heap EXCEPT ![ModelRef] =
                  [NewModel(pretrained) EXCEPT
                     !.params = [n \in ParamNames |-> c]]]
  /\ model' = ModelRef
  /\ pc' = "main_call_test"
  /\ UNCHANGED <<inputs, raised, best_model, optParams, trainLocals,
                 testFrame, events, lastFwd, accHist>>

\* test.py lines 108-117: the call of test() in mode 'app' or 'test'.
MainCallTest ==
  /\ pc = "main_call_test"
  /\ t_mode' = IF app THEN "app" ELSE "test"
  /\ t_ret' = "ret_main"
  /\ pc' = "test_enter"
  /\ UNCHANGED <<inputs, raised, heap, model, best_model, optParams,
                 trainLocals, t_iter, t_acc, t_loss, t_size, retval, t_log,
                 events, lastFwd, accHist>>

\* test.py lines 115/118: the result is printed.
MainPrint ==
  /\ pc = "ret_main"
  /\ pc' = "done"
  /\ retval' = NoRet
  /\ t_log' = <<>>
  /\ UNCHANGED <<inputs, raised, heap, model, best_model, optParams,
                 trainLocals, t_mode, t_iter, t_acc, t_loss, t_size, t_ret,
                 events, lastFwd, accHist>>

(* ------------------------------- test() -------------------------------- *)

\* test.py lines 144-157: model.eval(), then the iterator of the mode; in
\* mode 'app' one forward pass whose prediction is returned at once.
TestEnter ==
  /\ pc = "test_enter"
  /\ heap' = SetEval(heap, model)
  /\ t_log' = <<>>
  /\ IF t_mode = "app"
       THEN /\ lastFwd' = [caller |-> "test", training |-> heap'[model].training]
            /\ retval' = [kind |-> "preds", loss |-> 0, acc |-> <<0, 1>>]
            /\ pc' = t_ret
            /\ UNCHANGED <<t_iter, t_acc, t_loss, t_size>>
       ELSE /\ t_iter' = IteratorOf(t_mode, validN, testN)
            /\ t_acc' = 0
            /\ t_loss' = 0
            /\ t_size' = 0
            /\ pc' = "test_loop"
            /\ UNCHANGED <<lastFwd, retval>>
  /\ UNCHANGED <<inputs, raised, model, best_model, optParams, trainLocals,
                 t_mode, t_ret, events, accHist>>

\* test.py lines 159-171: one batch of the loop.
TestBatch ==
  /\ pc = "test_loop"
  /\ t_iter # <<>>
  /\ \E correct \in 0..Head(t_iter), l \in Losses :
       /\ t_loss' = t_loss + l
       /\ t_acc' = t_acc + correct
       /\ t_size' = t_size + Head(t_iter)
       /\ t_log' = Append(t_log, [size |-> Head(t_iter), correct |-> correct,
                                  loss |-> l])
  /\ lastFwd' = [caller |-> "test", training |-> heap[model].training]
  /\ heap' = TestBatchHeap(heap, model)
  /\ t_iter' = Tail(t_iter)
  /\ UNCHANGED <<inputs, pc, raised, model, best_model, optParams,
                 trainLocals, t_mode, t_ret, retval, events, accHist>>

\* test.py lines 173-175: acc /= size, return loss, acc.
TestReturn ==
  /\ pc = "test_loop"
  /\ t_iter = <<>>
  /\ IF t_size = 0
       THEN /\ raised' = "ZeroDivisionError"
            /\ pc' = "error"
            /\ retval' = retval
       ELSE /\ retval' = [kind |-> "pair", loss |-> t_loss,
                          acc |-> <<t_acc, t_size>>]
            /\ pc' = t_ret
            /\ raised' = raised
  /\ UNCHANGED <<inputs, heap, model, best_model, optParams, trainLocals,
                 t_mode, t_iter, t_acc, t_loss, t_size, t_ret, t_log,
                 events, lastFwd, accHist>>

(* ------------------------------- train() ------------------------------- *)

\* train.py lines 60-74: the model, the optimizer over the parameters that
\* require grad, model.train(), and the running maxima.
TrainConstruct ==
  /\ \/ pc = "train_start"
     \/ driver = "train.train" /\ pc = "start"
  /\ heap' = SetTrain([heap EXCEPT ![ModelRef] = NewModel(pretrained)],
                      ModelRef)
  /\ model' = ModelRef
  /\ optParams' = TrainableParams(NewModel(pretrained))
  /\ train_loss' = 0
  /\ max_valid_acc' = <<0, 1>>
  /\ max_test_acc' = <<0, 1>>
  /\ i' = -1
  /\ pc' = "pull"
  /\ UNCHANGED <<inputs, raised, best_model, kt, valid_loss, valid_acc,
                 test_loss, test_acc, result, testFrame, events, lastFwd,
                 accHist>>

\* train.py line 75: the next batch, or the end of the loop.
Pull ==
  /\ pc = "pull"
  /\ LET exhausted == i + 1 >= numTrain IN
       /\ pc' = PullTarget(exhausted)
       /\ i' = IF exhausted THEN i ELSE i + 1
       /\ events' = IF exhausted THEN events ELSE <<"pull">>
  /\ UNCHANGED <<inputs, raised, heap, model, best_model, optParams, kt,
                 train_loss, max_valid_acc, max_test_acc, valid_loss,
                 valid_acc, test_loss, test_acc, result, testFrame, lastFwd,
                 accHist>>

\* train.py lines 76-77: keep_training decides whether the loop goes on.
KeepTraining ==
  /\ pc = "keep_training"
  /\ \E k \in BOOLEAN :
       /\ kt' = k
       /\ pc' = KeepTrainingTarget(k)
  /\ UNCHANGED <<inputs, raised, heap, model, best_model, optParams, i,
                 train_loss, max_valid_acc, max_test_acc, valid_loss,
                 valid_acc, test_loss, test_acc, result, testFrame, events,
                 lastFwd, accHist>>

\* train.py line 78: p, q = Sentence(...).generate(...)
BuildSentence ==
  /\ pc = "sentence"
  /\ events' = Append(events, "sentence")
  /\ pc' = Succ("sentence")
  /\ UNCHANGED <<inputs, raised, heap, model, best_model, optParams,
                 trainLocals, testFrame, lastFwd, accHist>>

\* train.py line 80: preds = model(p, q)
Forward ==
  /\ pc = "forward"
  /\ lastFwd' = [caller |-> "train", training |-> heap[model].training]
  /\ events' = Append(events, "forward")
  /\ pc' = Succ("forward")
  /\ UNCHANGED <<inputs, raised, heap, model, best_model, optParams,
                 trainLocals, testFrame, accHist>>

\* train.py line 82: optimizer.zero_grad()
ZeroGrad ==
  /\ pc = "zero_grad"
  /\ heap' = ZeroGradOf(heap, model, optParams)
  /\ events' = Append(events, "zero_grad")
  /\ pc' = Succ("zero_grad")
  /\ UNCHANGED <<inputs, raised, model, best_model, optParams, trainLocals,
                 testFrame, lastFwd, accHist>>

\* train.py lines 83-84: the batch loss, added to train_loss.
Loss ==
  /\ pc = "loss"
  /\ \E l \in TrainLosses : train_loss' = train_loss + l
  /\ events' = Append(events, "loss")
  /\ pc' = Succ("loss")
  /\ UNCHANGED <<inputs, raised, heap, model, best_model, optParams, i, kt,
                 max_valid_acc, max_test_acc, valid_loss, valid_acc,
                 test_loss, test_acc, result, testFrame, lastFwd, accHist>>

\* train.py line 85: batch_loss.backward()
Backward ==
  /\ pc = "backward"
  /\ heap' = BackwardOf(heap, model)
  /\ events' = Append(events, "backward")
  /\ pc' = Succ("backward")
  /\ UNCHANGED <<inputs, raised, model, best_model, optParams, trainLocals,
                 testFrame, lastFwd, accHist>>

\* train.py line 86: optimizer.step()
Step ==
  /\ pc = "step"
  /\ \E d \in Deltas : heap' = StepOf(heap, model, optParams, d)
  /\ events' = Append(events, "step")
  /\ pc' = Succ("step")
  /\ UNCHANGED <<inputs, raised, model, best_model, optParams, trainLocals,
                 testFrame, lastFwd, accHist>>

\* train.py line 88: is this a step that ends with an evaluation?
Interval ==
  /\ pc = "interval"
  /\ pc' = IF IsEvalStep(i, print_interval) THEN "call_valid" ELSE "pull"
  /\ UNCHANGED <<inputs, raised, heap, model, best_model, optParams,
                 trainLocals, testFrame, events, lastFwd, accHist>>

\* train.py line 89: the call test(model, args, model_data, mode='valid')
CallValid ==
  /\ pc = "call_valid"
  /\ t_mode' = "valid"
  /\ t_ret' = "ret_valid"
  /\ pc' = "test_enter"
  /\ UNCHANGED <<inputs, raised, heap, model, best_model, optParams,
                 trainLocals, t_iter, t_acc, t_loss, t_size, retval, t_log,
                 events, lastFwd, accHist>>

\* train.py line 89: valid_loss, valid_acc = <the returned pair>
AssignValid ==
  /\ pc = "ret_valid"
  /\ valid_loss' = retval.loss
  /\ valid_acc' = retval.acc
  /\ retval' = NoRet
  /\ t_log' = <<>>
  /\ pc' = "call_test"
  /\ UNCHANGED <<inputs, raised, heap, model, best_model, optParams, i, kt,
                 train_loss, max_valid_acc, max_test_acc, test_loss,
                 test_acc, result, t_mode, t_iter, t_acc, t_loss, t_size,
                 t_ret, events, lastFwd, accHist>>

\* train.py line 90: the call test(model, args, model_data)
CallTest ==
  /\ pc = "call_test"
  /\ t_mode' = "test"
  /\ t_ret' = "ret_test"
  /\ pc' = "test_enter"
  /\ UNCHANGED <<inputs, raised, heap, model, best_model, optParams,
                 trainLocals, t_iter, t_acc, t_loss, t_size, retval, t_log,
                 events, lastFwd, accHist>>

\* train.py line 90: test_loss, test_acc = <the returned pair>
AssignTest ==
  /\ pc = "ret_test"
  /\ test_loss' = retval.loss
  /\ test_acc' = retval.acc
  /\ retval' = NoRet
  /\ t_log' = <<>>
  /\ pc' = "compare"
  /\ UNCHANGED <<inputs, raised, heap, model, best_model, optParams, i, kt,
                 train_loss, max_valid_acc, max_test_acc, valid_loss,
                 valid_acc, result, t_mode, t_iter, t_acc, t_loss, t_size,
                 t_ret, events, lastFwd, accHist>>

\* train.py lines 91-110: metrics are logged, and on a strictly better
\* validation accuracy the maxima and best_model are replaced.
Compare ==
  /\ pc = "compare"
  /\ accHist' = Append(accHist, [acc |-> valid_acc,
                                 params |-> heap[model].params])
  /\ IF Improves(valid_acc, max_valid_acc)
       THEN LET new == DeepCopyRef(heap, model, {model, best_model}) IN
            /\ max_valid_acc' = valid_acc
            /\ max_test_acc' = test_acc
            /\ heap' = Rebind(heap, best_model, new, model)
            /\ best_model' = new
       ELSE UNCHANGED <<max_valid_acc, max_test_acc, heap, best_model>>
  /\ pc' = "reset"
  /\ UNCHANGED <<inputs, raised, model, optParams, i, kt, train_loss,
                 valid_loss, valid_acc, test_loss, test_acc, result,
                 testFrame, events, lastFwd>>

\* train.py lines 112-113: train_loss = 0; model.train()
Reset ==
  /\ pc = "reset"
  /\ train_loss' = 0
  /\ heap' = SetTrain(heap, model)
  /\ pc' = "pull"
  /\ UNCHANGED <<inputs, raised, model, best_model, optParams, i, kt,
                 max_valid_acc, max_test_acc, valid_loss, valid_acc,
                 test_loss, test_acc, result, testFrame, events, lastFwd,
                 accHist>>

\* train.py lines 115-119: the maxima are printed and best_model is read
\* for writer.add_graph; a local never assigned raises UnboundLocalError.
AfterLoop ==
  /\ pc = "after_loop"
  /\ IF best_model = Unbound
       THEN raised' = "UnboundLocalError" /\ pc' = "error"
       ELSE raised' = raised /\ pc' = "return"
  /\ UNCHANGED <<inputs, heap, model, best_model, optParams, trainLocals,
                 testFrame, events, lastFwd, accHist>>

\* train.py lines 120-122: return best_model
Return ==
  /\ pc = "return"
  /\ result' = best_model
  /\ pc' = "done"
  /\ UNCHANGED <<inputs, raised, heap, model, best_model, optParams, i, kt,
                 train_loss, max_valid_acc, max_test_acc, valid_loss,
                 valid_acc, test_loss, test_acc, testFrame, events, lastFwd,
                 accHist>>

(* ---------------------------- specification ---------------------------- *)

Next ==
  \/ TrainMain
  \/ TestMainSelect
  \/ LoadModel
  \/ MainCallTest
  \/ MainPrint
  \/ TestEnter
  \/ TestBatch
  \/ TestReturn
  \/ TrainConstruct
  \/ Pull
  \/ KeepTraining
  \/ BuildSentence
  \/ Forward
  \/ ZeroGrad
  \/ Loss
  \/ Backward
  \/ Step
  \/ Interval
  \/ CallValid
  \/ AssignValid
  \/ CallTest
  \/ AssignTest
  \/ Compare
  \/ Reset
  \/ AfterLoop
  \/ Return

Spec == Init /\ [][Next]_vars

(* ------------------------------ properties ----------------------------- *)

IsPrefix(a, b) == Len(a) <= Len(b) /\ \A k \in 1..Len(a) : a[k] = b[k]

\* The accuracy in h that no other accuracy in h exceeds.
IsMaxOf(a, h) ==
  /\ \E j \in 1..Len(h) : SameAcc(h[j].acc, a)
  /\ \A j \in 1..Len(h) : ~Greater(h[j].acc, a)

TrainEnded == driver = "train.train" /\ pc \in {"done", "error"}

InPeriodicEval ==
  \/ pc \in {"call_valid", "ret_valid", "call_test", "ret_test", "compare",
             "reset"}
  \/ pc \in {"test_enter", "test_loop"} /\ t_ret \in {"ret_valid", "ret_test"}

SplitSize == IF t_mode = "valid" THEN validN ELSE testN

\* C1: whenever train() has ended, it has returned normally and what it
\* returned is the retained best snapshot, a live model object.
C1_TrainReturnsBest ==
  TrainEnded =>
    /\ pc = "done"
    /\ raised = "none"
    /\ result # Unbound
    /\ result = best_model
    /\ heap[result].live

\* C2: after every periodic evaluation max_valid_acc is the maximum of the
\* validation accuracies evaluated so far, and best_model is bound to a copy
\* of the parameters the model had at an evaluation that reached that
\* maximum.
C2_BestIsArgmax ==
  pc = "reset" =>
    /\ IsMaxOf(max_valid_acc, accHist)
    /\ best_model # Unbound
    /\ \E j \in 1..Len(accHist) :
         /\ SameAcc(accHist[j].acc, max_valid_acc)
         /\ heap[best_model].params = accHist[j].params

\* C3: the retained snapshot is an object of its own; no step that leaves
\* best_model bound to the same object changes that object, and best_model
\* is rebound only by the comparison of the periodic evaluation, on a
\* strictly better validation accuracy, to a copy of the current model.
C3_SnapshotIsolated ==
  [][ /\ (best_model # Unbound /\ best_model' = best_model)
          => heap'[best_model] = heap[best_model]
      /\ (best_model' # best_model)
          => /\ pc = "compare"
             /\ Improves(valid_acc, max_valid_acc)
             /\ best_model' # model'
             /\ heap'[best_model'] = heap[model]
    ]_vars

C3_Witness ==
  /\ best_model # Unbound
  /\ heap[model].params # heap[best_model].params
  /\ pc = "interval"

\* C4 as stated: the pair test() returns holds the MEAN of the batch losses
\* over every batch of the split, and correct / examples as accuracy.
C4_ReturnsMeanLoss ==
  retval.kind = "pair" =>
    /\ [k \in 1..Len(t_log) |-> t_log[k].size] = Batches(SplitSize)
    /\ retval.loss * Len(t_log) = SumOf(t_log, "loss")
    /\ SameAcc(retval.acc, <<SumOf(t_log, "correct"), SplitSize>>)

\* C4 amended: the pair test() returns holds the SUM of the batch losses
\* over every batch of the split, and correct / examples as accuracy.
C4_ReturnsSummedLoss ==
  retval.kind = "pair" =>
    /\ [k \in 1..Len(t_log) |-> t_log[k].size] = Batches(SplitSize)
    /\ retval.loss = SumOf(t_log, "loss")
    /\ SameAcc(retval.acc, <<SumOf(t_log, "correct"), SplitSize>>)

C4_Witness ==
  /\ retval.kind = "pair"
  /\ t_mode = "valid"
  /\ Len(t_log) >= 2
  /\ retval.loss > 0
  /\ validN # testN

\* C5: a forward pass made by test() sees the model in inference mode and a
\* forward pass made by a training step sees it in training mode.
C5_ForwardModes ==
  /\ lastFwd.caller = "test" => ~lastFwd.training
  /\ lastFwd.caller = "train" => lastFwd.training

C5_Witness ==
  /\ lastFwd.caller = "train"
  /\ Len(accHist) >= 1
  /\ pc = "zero_grad"

\* C6: once either main() is past its dataset selection with a data_type
\* that names neither SNLI nor Quora, it has raised the descriptive
\* RuntimeError and no model exists.
C6_UnsupportedRejected ==
  ( /\ driver \in {"train.main", "test.main"}
    /\ Lower(data_type) \notin {"snli", "quora"}
    /\ pc # "start" )
  => (raised = RuntimeErrorMsg /\ model = Unbound)

\* C7: in training the word table is not among the optimizer's parameters,
\* every other parameter is, and in every live model object the word table
\* still equals the pretrained vectors.
C7_WordEmbeddingFrozen ==
  (driver = "train.train" /\ model # Unbound) =>
    /\ optParams = ParamNames \ {"word_encoder.weight"}
    /\ \A o \in ObjIds :
         heap[o].live => heap[o].params["word_encoder.weight"] = pretrained

C7_Witness ==
  /\ driver = "train.train"
  /\ model # Unbound
  /\ best_model # Unbound
  /\ heap[model].params["lstm.weight"] >= 2

\* C8 as stated: the events of a training step come in the order pull,
\* sentence, forward, loss, zero gradients, backward, step, and a periodic
\* evaluation runs only after the step of an iteration i with
\* (i + 1) divisible by print_interval.
C8_OrderAsStated ==
  /\ IsPrefix(events, <<"pull", "sentence", "forward", "loss", "zero_grad",
                        "backward", "step">>)
  /\ InPeriodicEval =>
       /\ Len(events) = 7
       /\ (i + 1) % print_interval = 0

\* C8 amended: the events of a training step come in the order pull,
\* sentence, forward, zero gradients, loss, backward, step, and a periodic
\* evaluation runs only after the step of an iteration i with
\* (i + 1) divisible by print_interval.
C8_OrderInCode ==
  /\ IsPrefix(events, <<"pull", "sentence", "forward", "zero_grad", "loss",
                        "backward", "step">>)
  /\ InPeriodicEval =>
       /\ Len(events) = 7
       /\ (i + 1) % print_interval = 0

C8_Witness ==
  /\ pc = "call_valid"
  /\ Len(events) = 7
  /\ i = 1

\* C9: the parameters of the model change only in the optimizer step, and
\* no step taken inside test() changes a parameter, a gradient or the
\* optimizer's parameter set.
C9_ParamsOnlyByStep ==
  [][ /\ (model # Unbound /\ heap'[model].params # heap[model].params)
          => pc = "step"
      /\ (pc \in {"test_enter", "test_loop"})
          => /\ heap'[model].params = heap[model].params
             /\ heap'[model].grad = heap[model].grad
             /\ optParams' = optParams
    ]_vars

C9_Witness ==
  /\ pc = "ret_test"
  /\ Len(t_log) >= 1
  /\ heap[model].params["lstm.weight"] >= 1

====
